---- MODULE Spec2Model ----
(***************************************************************************)
(* EmPOWER Runtime (empower/core/core.py): the registry of accounts,       *)
(* tenants and components, kept next to a persistent store.                *)
(*                                                                         *)
(* Every operation of EmpowerRuntime is a short sequence of atomic steps   *)
(* (store commit, in-memory mirror, one module removal, ...), run by one   *)
(* thread: pc names the next step, "idle" between operations.  Python      *)
(* dicts that the code iterates (tenants, components, modules) are kept as *)
(* sequences in insertion order.                                           *)
(***************************************************************************)
EXTENDS Naturals, Sequences, FiniteSets, TLC

\* ------------------------------------------------------------------ bounds

\* operations called after the first start of the controller
MaxOps == 3

\* tenant ids a caller passes to add_tenant / request_tenant (besides None)
CallerIds == {"t1", "t2"}
\* ids the store generates when the caller passes None
Uuid(n) == "uuid" \o ToString(n)
AutoIds == {Uuid(n) : n \in 1..MaxOps}
TenantIds == CallerIds \cup AutoIds
TenantNames == {"shared", "other"}
ComponentNames == {"c1", "c2"}

\* Python's None, as the tenant_id argument
None == "None"
\* the empty string as the tenant_id argument: not None, and not true either
EmptyId == ""

\* the description argument of add_tenant / request_tenant
Desc == "desc"

\* ------------------------------------------------------------ store rows

\* TblAccount rows written by generate_default_accounts
RootRow == [username |-> "root", password |-> "root", role |-> "admin",
            name |-> "Administrator", surname |-> "", email |-> "admin@empower.net"]
FooRow == [username |-> "foo", password |-> "foo", role |-> "user",
           name |-> "Foo", surname |-> "", email |-> "foo@empower.net"]
BarRow == [username |-> "bar", password |-> "bar", role |-> "user",
           name |-> "Bar", surname |-> "", email |-> "bar@empower.net"]

DefaultRows == {RootRow, FooRow, BarRow}

\* the usernames operations are called with: root, a default user and a
\* user that no bootstrap creates
Usernames == {"root", "foo", "alice"}

\* the TblAccount row create_account builds from its arguments
NewAccountRow(username, role) ==
    [username |-> username, password |-> username, role |-> role,
     name |-> username, surname |-> "", email |-> username]

Roles == {"user"}

\* a table (or a dict) keyed by username, from a set of rows
ByUsername(rows) ==
    [u \in {r.username : r \in rows} |-> CHOOSE r \in rows : r.username = u]

\* Account(username, password, name, surname, email, role)
Account(row) ==
    [username |-> row.username, password |-> row.password, name |-> row.name,
     surname |-> row.surname, email |-> row.email, role |-> row.role]

\* ------------------------------------------- dicts and tables as sequences

Range(s) == {s[i] : i \in 1..Len(s)}

\* tenant rows and Tenant objects: [tenant_id, tenant_name, owner, desc]
Ids(s) == {s[i].tenant_id : i \in 1..Len(s)}
DelTenant(s, id) == SelectSeq(s, LAMBDA r : r.tenant_id # id)
\* d[key] = value on a dict: in place when the key exists, else at the end
PutTenant(s, t) ==
    IF t.tenant_id \in Ids(s)
    THEN [i \in 1..Len(s) |-> IF s[i].tenant_id = t.tenant_id THEN t ELSE s[i]]
    ELSE Append(s, t)

NoRow == [tenant_id |-> None, tenant_name |-> "", owner |-> "", desc |-> ""]

\* Tenant(tenant_id, tenant_name, owner, desc)
Tenant(tenant_id, tenant_name, owner, desc) ==
    [tenant_id |-> tenant_id, tenant_name |-> tenant_name, owner |-> owner,
     desc |-> desc]

\* components: [name, cls, hasModules, hasStart, path, started, handlers, modules,
\* raises]
CompNames(s) == {s[i].name : i \in 1..Len(s)}
CompOf(s, n) == s[CHOOSE i \in 1..Len(s) : s[i].name = n]
DelComp(s, n) == SelectSeq(s, LAMBDA c : c.name # n)
SetComp(s, c) ==
    IF c.name \in CompNames(s)
    THEN [i \in 1..Len(s) |-> IF s[i].name = c.name THEN c ELSE s[i]]
    ELSE Append(s, c)

\* component.remove_module(module_id), the component's own operation
RemoveModule(c, module_id) ==
    [c EXCEPT !.modules = SelectSeq(c.modules, LAMBDA m : m.module_id # module_id)]

\* component.remove_handlers(), the component's own teardown hook
RemoveHandlers(c) == [c EXCEPT !.handlers = FALSE]

\* component.start(), the component's own start hook
Start(c) == [c EXCEPT !.started = c.started + 1]

\* which of a component's own operations raises, and for which module
Fault(hook, module_id) == [hook |-> hook, module_id |-> module_id]
NoFault == Fault("none", "")
Raises(c, hook, module_id) == c.raises = Fault(hook, module_id)

\* ------------------------------------------------------------------- state

VARIABLES
    dbAccounts,     \* store: TblAccount, username -> row
    dbTenants,      \* store: TblTenant rows, in insertion order
    dbPending,      \* store: TblPendingTenant rows, in insertion order
    accounts,       \* self.accounts: username -> Account
    tenants,        \* self.tenants: Tenant objects, in dict order
    components,     \* self.components: component objects, in dict order
    pc,             \* the next step of the running operation, or "idle"
    op,             \* the running (or last completed) call: [name, args]
    result,         \* its outcome: [status, value]
    caller,         \* who called remove_tenant: "none" or "remove_account"
    tenant_id,      \* remove_tenant's argument
    to_be_deleted,  \* remove_account's local list
    ci,             \* remove_tenant's position in self.components.values()
    to_be_removed,  \* remove_tenant's / unregister's local list
    request,        \* add_tenant's local TblTenant row
    uuids,          \* store: the number of tenant ids it has generated
    nops            \* operations started so far

store == <<dbAccounts, dbTenants, dbPending, uuids>>
memory == <<accounts, tenants, components>>
locals == <<caller, tenant_id, to_be_deleted, ci, to_be_removed, request>>
vars == <<dbAccounts, dbTenants, dbPending, accounts, tenants, components,
          pc, op, result, caller, tenant_id, to_be_deleted, ci, to_be_removed,
          request, uuids, nops>>

Running == [status |-> "running", value |-> None]
Ok(value) == [status |-> "ok", value |-> value]
Raised(exception) == [status |-> exception, value |-> None]

\* an operation is called: the runtime is idle and the budget allows it
Call(name, args) ==
    /\ pc = "idle"
    /\ nops < MaxOps
    /\ nops' = nops + 1
    /\ op' = [name |-> name, args |-> args]

\* the running operation returns or raises
Return(r) ==
    /\ pc' = "idle"
    /\ result' = r

\* the running operation goes on to its next step
Goto(step) ==
    /\ pc' = step
    /\ result' = Running

\* ------------------------------------------------------------- bootstrap

\* a bug: defaults are generated whenever one of the three is missing
FewerThanThreeRows == Cardinality(DOMAIN dbAccounts) < 3

\* generate_default_accounts: "if not Session().query(TblAccount).all()"
NoAccountRows == DOMAIN dbAccounts = {}

\* __init__, up to the call of generate_default_accounts
Init ==
    /\ dbAccounts = <<>>
    /\ dbTenants = <<>>
    /\ dbPending = <<>>
    /\ accounts = <<>>
    /\ tenants = <<>>
    /\ components = <<>>
    /\ pc = "generate_default_accounts"
    /\ op = [name |-> "__init__", args |-> <<>>]
    /\ result = Running
    /\ caller = "none"
    /\ tenant_id = None
    /\ to_be_deleted = <<>>
    /\ ci = 0
    /\ to_be_removed = <<>>
    /\ request = NoRow
    /\ uuids = 0
    /\ nops = 0

GenerateDefaultAccounts ==
    /\ pc = "generate_default_accounts"
    /\ IF NoAccountRows
       THEN dbAccounts' = ByUsername(DefaultRows)
       ELSE dbAccounts' = dbAccounts
    /\ Goto("load_accounts")
    /\ UNCHANGED <<dbTenants, dbPending, uuids, memory, op, locals, nops>>

LoadAccounts ==
    /\ pc = "load_accounts"
    /\ accounts' = [u \in DOMAIN dbAccounts |-> Account(dbAccounts[u])]
    /\ Goto("load_tenants")
    /\ UNCHANGED <<store, tenants, components, op, locals, nops>>

\* Session().query(TblTenant).all(): the rows, in an order the store chooses
QueryAll(table) ==
    LET n == Len(table)
        orders == {p \in [1..n -> 1..n] : \A i, j \in 1..n : p[i] = p[j] => i = j}
    IN {[i \in 1..n |-> table[p[i]]] : p \in orders}

RECURSIVE LoadRows(_, _)
\* __load_tenants: the loop over the rows, which stops at a row whose
\* tenant_id is in self.tenants already
LoadRows(loaded, rows) ==
    IF rows = <<>> THEN [tenants |-> loaded, raised |-> FALSE]
    ELSE IF Head(rows).tenant_id \in Ids(loaded)
    THEN [tenants |-> loaded, raised |-> TRUE]
    ELSE LoadRows(Append(loaded,
                         Tenant(Head(rows).tenant_id, Head(rows).tenant_name,
                                Head(rows).owner, Head(rows).desc)),
                  Tail(rows))

LoadTenants ==
    /\ pc = "load_tenants"
    /\ \E rows \in QueryAll(dbTenants) :
         LET r == LoadRows(<<>>, rows)
         IN /\ tenants' = r.tenants
            /\ IF r.raised
               THEN \* __init__ raises KeyError: there is no runtime to call
                    /\ pc' = "init_raised"
                    /\ result' = Raised("KeyError")
               ELSE Return(Ok(None))
    /\ UNCHANGED <<store, accounts, components, op, locals, nops>>

\* the controller is started again on the same store: a new EmpowerRuntime
Restart ==
    /\ Call("__init__", <<>>)
    /\ accounts' = <<>>
    /\ tenants' = <<>>
    /\ components' = <<>>
    /\ Goto("generate_default_accounts")
    /\ caller' = "none"
    /\ tenant_id' = None
    /\ to_be_deleted' = <<>>
    /\ ci' = 0
    /\ to_be_removed' = <<>>
    /\ request' = NoRow
    /\ UNCHANGED store

\* --------------------------------------------------------------- accounts

\* a bug: the duplicate check is left to the store
AccountNeverRegistered(username) == FALSE

\* create_account: "if username in self.accounts"
AccountRegistered(username) == username \in DOMAIN accounts

CreateAccount(username, role) ==
    /\ Call("create_account", <<username, role>>)
    /\ IF AccountRegistered(username)
       THEN /\ Return(Raised("ValueError"))
            /\ UNCHANGED dbAccounts
       ELSE IF username \in DOMAIN dbAccounts
       THEN \* the primary key: commit raises, nothing catches it
            /\ Return(Raised("IntegrityError"))
            /\ UNCHANGED dbAccounts
       ELSE /\ dbAccounts' =
                 [u \in DOMAIN dbAccounts \cup {username} |->
                    IF u = username THEN NewAccountRow(username, role)
                    ELSE dbAccounts[u]]
            /\ Goto("create_account_mirror")
    /\ UNCHANGED <<dbTenants, dbPending, uuids, memory, locals>>

CreateAccountMirror ==
    /\ pc = "create_account_mirror"
    /\ LET username == op.args[1]
       IN accounts' =
            [u \in DOMAIN accounts \cup {username} |->
               IF u = username THEN Account(NewAccountRow(username, op.args[2]))
               ELSE accounts[u]]
    /\ Return(Ok(None))
    /\ UNCHANGED <<store, tenants, components, op, locals, nops>>

\* a bug: the root check is missing
IsRootNever(username) == FALSE

\* remove_account: "if username == 'root'"
IsRoot(username) == username = "root"

\* a bug: only the first tenant of the owner is removed
OwnedByFirst(username) ==
    LET owned == SelectSeq(tenants, LAMBDA x : x.owner = username)
    IN IF owned = <<>> THEN <<>> ELSE <<owned[1].tenant_id>>

\* remove_account: the tenants to remove, in dict order
OwnedBy(username) ==
    LET owned == SelectSeq(tenants, LAMBDA x : x.owner = username)
    IN [i \in 1..Len(owned) |-> owned[i].tenant_id]

RemoveAccount(username) ==
    /\ Call("remove_account", <<username>>)
    /\ IF IsRoot(username)
       THEN /\ Return(Raised("ValueError"))
            /\ UNCHANGED dbAccounts
       ELSE IF username \notin DOMAIN dbAccounts
       THEN /\ Return(Raised("KeyError"))
            /\ UNCHANGED dbAccounts
       ELSE /\ dbAccounts' = [u \in DOMAIN dbAccounts \ {username} |-> dbAccounts[u]]
            /\ Goto("remove_account_del")
    /\ UNCHANGED <<dbTenants, dbPending, uuids, memory, locals>>

RemoveAccountDel ==
    /\ pc = "remove_account_del"
    /\ LET username == op.args[1]
       IN IF username \notin DOMAIN accounts
          THEN /\ Return(Raised("KeyError"))
               /\ UNCHANGED <<accounts, to_be_deleted>>
          ELSE /\ accounts' = [u \in DOMAIN accounts \ {username} |-> accounts[u]]
               /\ to_be_deleted' = OwnedBy(username)
               /\ Goto("remove_account_loop")
    /\ UNCHANGED <<store, tenants, components, op, caller, tenant_id, ci,
                   to_be_removed, request, nops>>

\* an Account's username is its immutable key: setattr on it raises
ReadOnly(param) == param = "username"

\* setattr(account, param, value) on a field that can be set
SetAttr(account, param, value) == [account EXCEPT ![param] = value]

RECURSIVE ApplyRequest(_, _)
\* "for param in request: setattr(account, param, request[param])"
ApplyRequest(account, req) ==
    IF req = <<>> THEN [account |-> account, raised |-> FALSE]
    ELSE IF ReadOnly(Head(req)[1]) THEN [account |-> account, raised |-> TRUE]
    ELSE ApplyRequest(SetAttr(account, Head(req)[1], Head(req)[2]), Tail(req))

UpdateAccount(username, req) ==
    /\ Call("update_account", <<username, req>>)
    /\ IF username \notin DOMAIN accounts
       THEN /\ Return(Raised("KeyError"))
            /\ UNCHANGED accounts
       ELSE LET r == ApplyRequest(accounts[username], req)
            IN /\ accounts' = [accounts EXCEPT ![username] = r.account]
               /\ Return(IF r.raised THEN Raised("AttributeError") ELSE Ok(None))
    /\ UNCHANGED <<store, tenants, components, locals>>

\* ---------------------------------------------------------------- tenants

\* an id the store generates (uuid4): one it has not generated before
FreshId == Uuid(uuids + 1)

\* "if tenant_id:" is false for None and for the empty string
Truthy(id) == id \notin {None, EmptyId}

\* the id a row gets: the caller's, or one the store generates
RowId(id) == IF Truthy(id) THEN id ELSE FreshId

\* the store refuses a row: primary key tenant_id, unique tenant_name
Violates(table, row) ==
    \E i \in 1..Len(table) :
        \/ table[i].tenant_id = row.tenant_id
        \/ table[i].tenant_name = row.tenant_name

\* add_tenant / request_tenant: "if tenant_id in self.tenants"
TenantLive(id) == id \in Ids(tenants)

\* a bug: the pending request is never found
LoadPendingTenantNever(id) == FALSE

\* request_tenant: "if self.load_pending_tenant(tenant_id)"
LoadPendingTenant(id) == id \in Ids(dbPending)

AddTenant(owner, desc, tenant_name, id) ==
    /\ Call("add_tenant", <<owner, desc, tenant_name, id>>)
    /\ IF TenantLive(id)
       THEN /\ Return(Raised("ValueError"))
            /\ UNCHANGED <<dbTenants, uuids, request>>
       ELSE LET row == Tenant(RowId(id), tenant_name, owner, desc)
            IN IF Violates(dbTenants, row)
               THEN \* commit raises IntegrityError
                    /\ Goto("add_tenant_except")
                    /\ UNCHANGED <<dbTenants, uuids, request>>
               ELSE /\ dbTenants' = Append(dbTenants, row)
                    /\ uuids' = IF Truthy(id) THEN uuids ELSE uuids + 1
                    /\ request' = row
                    /\ Goto("add_tenant_mirror")
    /\ UNCHANGED <<dbAccounts, dbPending, memory, caller, tenant_id,
                   to_be_deleted, ci, to_be_removed>>

\* a bug: the IntegrityError is not caught
AddTenantNoExcept ==
    /\ pc = "add_tenant_except"
    /\ Return(Raised("IntegrityError"))
    /\ UNCHANGED <<store, memory, op, locals, nops>>

\* add_tenant: "except IntegrityError: session.rollback(); raise ValueError"
AddTenantExcept ==
    /\ pc = "add_tenant_except"
    /\ Return(Raised("ValueError"))
    /\ UNCHANGED <<store, memory, op, locals, nops>>

AddTenantMirror ==
    /\ pc = "add_tenant_mirror"
    /\ LET owner == op.args[1]
           desc == op.args[2]
       IN IF owner \notin DOMAIN accounts
          THEN \* self.accounts[owner] raises
               /\ Return(Raised("KeyError"))
               /\ UNCHANGED tenants
          ELSE /\ tenants' = PutTenant(tenants,
                                Tenant(request.tenant_id, request.tenant_name,
                                       accounts[owner].username, desc))
               /\ Return(Ok(request.tenant_id))
    /\ UNCHANGED <<store, accounts, components, op, locals, nops>>

RequestTenant(owner, desc, tenant_name, id) ==
    /\ Call("request_tenant", <<owner, desc, tenant_name, id>>)
    /\ IF TenantLive(id) \/ LoadPendingTenant(id)
       THEN /\ Return(Raised("ValueError"))
            /\ UNCHANGED <<dbPending, uuids>>
       ELSE LET row == Tenant(RowId(id), tenant_name, owner, desc)
            IN IF Violates(dbPending, row)
               THEN /\ Goto("request_tenant_except")
                    /\ UNCHANGED <<dbPending, uuids>>
               ELSE /\ dbPending' = Append(dbPending, row)
                    /\ uuids' = IF Truthy(id) THEN uuids ELSE uuids + 1
                    /\ Return(Ok(row.tenant_id))
    /\ UNCHANGED <<dbAccounts, dbTenants, memory, locals>>

\* request_tenant: "except IntegrityError: session.rollback(); raise ValueError"
RequestTenantExcept ==
    /\ pc = "request_tenant_except"
    /\ Return(Raised("ValueError"))
    /\ UNCHANGED <<store, memory, op, locals, nops>>

RejectTenant(id) ==
    /\ Call("reject_tenant", <<id>>)
    /\ IF ~LoadPendingTenant(id)
       THEN /\ Return(Raised("KeyError"))
            /\ UNCHANGED dbPending
       ELSE /\ dbPending' = DelTenant(dbPending, id)
            /\ Return(Ok(None))
    /\ UNCHANGED <<dbAccounts, dbTenants, uuids, memory, locals>>

\* remove_tenant, from its entry to "del self.tenants[tenant_id]"
RemoveTenantEntry(id, from) ==
    IF ~TenantLive(id)
    THEN /\ Return(Raised("KeyError"))
         /\ UNCHANGED <<tenants, caller, tenant_id>>
    ELSE /\ tenants' = DelTenant(tenants, id)
         /\ caller' = from
         /\ tenant_id' = id
         /\ Goto("remove_tenant_store")

RemoveTenant(id) ==
    /\ Call("remove_tenant", <<id>>)
    /\ RemoveTenantEntry(id, "none")
    /\ UNCHANGED <<store, accounts, components, to_be_deleted, ci,
                   to_be_removed, request>>

\* remove_account: "for tenant_id in to_be_deleted: self.remove_tenant(tenant_id)"
RemoveAccountLoop ==
    /\ pc = "remove_account_loop"
    /\ IF to_be_deleted = <<>>
       THEN /\ Return(Ok(None))
            /\ UNCHANGED <<tenants, caller, tenant_id, to_be_deleted>>
       ELSE /\ RemoveTenantEntry(Head(to_be_deleted), "remove_account")
            /\ to_be_deleted' = Tail(to_be_deleted)
    /\ UNCHANGED <<store, accounts, components, op, ci, to_be_removed,
                   request, nops>>

\* remove_tenant: the persisted row is queried, deleted and committed
RemoveTenantStore ==
    /\ pc = "remove_tenant_store"
    /\ IF tenant_id \notin Ids(dbTenants)
       THEN \* session.delete(None) raises
            /\ Return(Raised("UnmappedInstanceError"))
            /\ UNCHANGED <<dbTenants, ci>>
       ELSE /\ dbTenants' = DelTenant(dbTenants, tenant_id)
            /\ ci' = 1
            /\ Goto("remove_tenant_components")
    /\ UNCHANGED <<dbAccounts, dbPending, uuids, memory, op, caller, tenant_id,
                   to_be_deleted, to_be_removed, request, nops>>

\* a bug: only ModuleWorker instances are swept
HasModulesByClass(c) == c.cls = "ModuleWorker"

\* remove_tenant: "if not hasattr(component, 'modules'): continue"
HasModules(c) == c.hasModules

\* remove_tenant: the ids of the component's modules of the tenant
ModulesOf(c, id) ==
    LET ms == SelectSeq(c.modules, LAMBDA m : m.tenant_id = id)
    IN [i \in 1..Len(ms) |-> ms[i].module_id]

\* remove_tenant: "for component in self.components.values()"
RemoveTenantComponents ==
    /\ pc = "remove_tenant_components"
    /\ IF ci > Len(components)
       THEN \* remove_tenant returns
            /\ IF caller = "remove_account"
               THEN Goto("remove_account_loop")
               ELSE Return(Ok(None))
            /\ UNCHANGED <<ci, to_be_removed>>
       ELSE IF ~HasModules(components[ci])
       THEN /\ ci' = ci + 1
            /\ Goto("remove_tenant_components")
            /\ UNCHANGED to_be_removed
       ELSE /\ to_be_removed' = ModulesOf(components[ci], tenant_id)
            /\ Goto("remove_tenant_modules")
            /\ UNCHANGED ci
    /\ UNCHANGED <<store, memory, op, caller, tenant_id, to_be_deleted,
                   request, nops>>

\* remove_tenant: "for module_id in to_be_removed: component.remove_module(...)"
RemoveTenantModules ==
    /\ pc = "remove_tenant_modules"
    /\ IF to_be_removed = <<>>
       THEN /\ ci' = ci + 1
            /\ Goto("remove_tenant_components")
            /\ UNCHANGED <<components, to_be_removed>>
       ELSE IF Raises(components[ci], "remove_module", Head(to_be_removed))
       THEN \* remove_module raises: remove_tenant and its caller raise
            /\ Return(Raised("Exception"))
            /\ UNCHANGED <<components, to_be_removed, ci>>
       ELSE /\ components' =
                 [components EXCEPT
                    ![ci] = RemoveModule(components[ci], Head(to_be_removed))]
            /\ to_be_removed' = Tail(to_be_removed)
            /\ Goto("remove_tenant_modules")
            /\ UNCHANGED ci
    /\ UNCHANGED <<store, accounts, tenants, op, caller, tenant_id,
                   to_be_deleted, request, nops>>

\* ------------------------------------------------------------- components

Module(module_id, tenant) == [module_id |-> module_id, tenant_id |-> tenant]

\* the modules collections a constructed component holds: none, two modules
\* of one tenant, or one module for each of two tenants
ModuleMaps ==
    {<<>>,
     <<Module("m1", "t1"), Module("m2", "t1")>>,
     <<Module("m1", "t1"), Module("m2", "t2")>>}

\* what init_method(**params) may construct
Instance(cls, hasModules, hasStart, modules) ==
    [name |-> "", cls |-> cls, hasModules |-> hasModules, hasStart |-> hasStart,
     path |-> "", started |-> 0, handlers |-> TRUE, modules |-> modules,
     raises |-> NoFault]

Instances ==
    {Instance("ModuleWorker", TRUE, FALSE, ms) : ms \in ModuleMaps}
    \cup {Instance("EmpowerApp", FALSE, s, <<>>) : s \in BOOLEAN}
    \cup {Instance("object", FALSE, FALSE, <<>>)}
    \cup {Instance("object", TRUE, FALSE, ms) : ms \in ModuleMaps}

\* what init_method(**params) may construct or do besides: a worker whose
\* remove_module raises for its second module, a worker whose remove_handlers
\* raises, an app whose start raises, and a constructor that raises
FaultyInstances ==
    LET worker == Instance("ModuleWorker", TRUE, FALSE,
                           <<Module("m1", "t1"), Module("m2", "t2")>>)
        app == Instance("EmpowerApp", FALSE, TRUE, <<>>)
    IN {[worker EXCEPT !.raises = Fault("remove_module", "m2")],
        [worker EXCEPT !.raises = Fault("remove_handlers", "")],
        [app EXCEPT !.raises = Fault("start", "")],
        [app EXCEPT !.raises = Fault("__init__", "")]}

\* register: "if name in self.components"
ComponentRegistered(name) == name \in CompNames(components)

Register(name, inst) ==
    /\ Call("register", <<name, inst>>)
    /\ IF ComponentRegistered(name)
       THEN /\ Return(Raised("ValueError"))
            /\ UNCHANGED components
       ELSE IF Raises(inst, "__init__", "")
       THEN \* init_method(**params) raises, nothing is assigned
            /\ Return(Raised("Exception"))
            /\ UNCHANGED components
       ELSE /\ components' = SetComp(components,
                                [inst EXCEPT !.name = name, !.path = name])
            /\ Goto("register_start")
    /\ UNCHANGED <<store, accounts, tenants, locals>>

\* a bug: start is called without asking whether the component has one
RegisterStartAlways ==
    /\ pc = "register_start"
    /\ components' = SetComp(components, Start(CompOf(components, op.args[1])))
    /\ Return(Ok(None))
    /\ UNCHANGED <<store, accounts, tenants, op, locals, nops>>

\* a bug: a component whose start raises is taken out of the registry again
RegisterStartCleanup ==
    /\ pc = "register_start"
    /\ LET c == CompOf(components, op.args[1])
       IN IF c.hasStart /\ Raises(c, "start", "")
          THEN /\ Return(Raised("Exception"))
               /\ components' = DelComp(components, c.name)
          ELSE /\ components' = IF c.hasStart THEN SetComp(components, Start(c))
                                ELSE components
               /\ Return(Ok(None))
    /\ UNCHANGED <<store, accounts, tenants, op, locals, nops>>

\* register: "if hasattr(self.components[name], 'start')"
RegisterStart ==
    /\ pc = "register_start"
    /\ LET c == CompOf(components, op.args[1])
       IN IF c.hasStart /\ Raises(c, "start", "")
          THEN \* start() raises, nothing catches it
               /\ Return(Raised("Exception"))
               /\ UNCHANGED components
          ELSE /\ components' = IF c.hasStart THEN SetComp(components, Start(c))
                                ELSE components
               /\ Return(Ok(None))
    /\ UNCHANGED <<store, accounts, tenants, op, locals, nops>>

\* unregister: issubclass(type(worker), ModuleWorker)
IsWorker(c) == c.cls = "ModuleWorker"

\* unregister: issubclass(type(worker), EmpowerApp)
IsApp(c) == c.cls = "EmpowerApp"

\* a bug: the gate asks for a modules collection, not for the class
RemovableByModules(c) == c.hasModules \/ c.cls = "EmpowerApp"

\* unregister: the type gate
Removable(c) == IsWorker(c) \/ IsApp(c)

Unregister(name) ==
    /\ Call("unregister", <<name>>)
    /\ IF ~ComponentRegistered(name)
       THEN /\ Return(Raised("KeyError"))
            /\ UNCHANGED to_be_removed
       ELSE LET worker == CompOf(components, name)
            IN IF ~Removable(worker)
               THEN /\ Return(Raised("ValueError"))
                    /\ UNCHANGED to_be_removed
               ELSE IF IsWorker(worker)
               THEN /\ to_be_removed' =
                         [i \in 1..Len(worker.modules) |-> worker.modules[i].module_id]
                    /\ Goto("unregister_modules")
               ELSE /\ Goto("unregister_handlers")
                    /\ UNCHANGED to_be_removed
    /\ UNCHANGED <<store, memory, caller, tenant_id, to_be_deleted, ci, request>>

\* a bug: the loop stops after the first module
UnregisterModulesFirstOnly ==
    /\ pc = "unregister_modules"
    /\ IF to_be_removed = <<>>
       THEN /\ Goto("unregister_handlers")
            /\ UNCHANGED <<components, to_be_removed>>
       ELSE IF Raises(CompOf(components, op.args[1]), "remove_module",
                      Head(to_be_removed))
       THEN /\ Return(Raised("Exception"))
            /\ UNCHANGED <<components, to_be_removed>>
       ELSE /\ components' =
                 SetComp(components,
                         RemoveModule(CompOf(components, op.args[1]),
                                      Head(to_be_removed)))
            /\ to_be_removed' = <<>>
            /\ Goto("unregister_modules")
    /\ UNCHANGED <<store, accounts, tenants, op, caller, tenant_id,
                   to_be_deleted, ci, request, nops>>

\* a bug: a remove_module that raises is caught and the loop goes on
UnregisterModulesSwallow ==
    /\ pc = "unregister_modules"
    /\ IF to_be_removed = <<>>
       THEN /\ Goto("unregister_handlers")
            /\ UNCHANGED <<components, to_be_removed>>
       ELSE /\ components' =
                 IF Raises(CompOf(components, op.args[1]), "remove_module",
                           Head(to_be_removed))
                 THEN components
                 ELSE SetComp(components,
                              RemoveModule(CompOf(components, op.args[1]),
                                           Head(to_be_removed)))
            /\ to_be_removed' = Tail(to_be_removed)
            /\ Goto("unregister_modules")
    /\ UNCHANGED <<store, accounts, tenants, op, caller, tenant_id,
                   to_be_deleted, ci, request, nops>>

\* unregister: "for remove in to_be_removed: ...remove_module(remove)"
UnregisterModules ==
    /\ pc = "unregister_modules"
    /\ IF to_be_removed = <<>>
       THEN /\ Goto("unregister_handlers")
            /\ UNCHANGED <<components, to_be_removed>>
       ELSE IF Raises(CompOf(components, op.args[1]), "remove_module",
                      Head(to_be_removed))
       THEN \* remove_module raises, nothing catches it
            /\ Return(Raised("Exception"))
            /\ UNCHANGED <<components, to_be_removed>>
       ELSE /\ components' =
                 SetComp(components,
                         RemoveModule(CompOf(components, op.args[1]),
                                      Head(to_be_removed)))
            /\ to_be_removed' = Tail(to_be_removed)
            /\ Goto("unregister_modules")
    /\ UNCHANGED <<store, accounts, tenants, op, caller, tenant_id,
                   to_be_deleted, ci, request, nops>>

\* unregister: "self.components[name].remove_handlers()"
UnregisterHandlers ==
    /\ pc = "unregister_handlers"
    /\ IF Raises(CompOf(components, op.args[1]), "remove_handlers", "")
       THEN \* remove_handlers raises, nothing catches it
            /\ Return(Raised("Exception"))
            /\ UNCHANGED components
       ELSE /\ components' =
                 SetComp(components,
                         RemoveHandlers(CompOf(components, op.args[1])))
            /\ Goto("unregister_del")
    /\ UNCHANGED <<store, accounts, tenants, op, locals, nops>>

\* unregister: "del self.components[name]"
UnregisterDel ==
    /\ pc = "unregister_del"
    /\ components' = DelComp(components, op.args[1])
    /\ Return(Ok(None))
    /\ UNCHANGED <<store, accounts, tenants, op, locals, nops>>

\* ----------------------------------------------------------- specification

\* the requests update_account is called with: (param, value) pairs
UpdateParams == {"name", "username"}
\* the owners request_tenant is called with
RequestOwners == {"foo"}
Requests == {<<<<p, "x">>>> : p \in UpdateParams}

Step ==
    \/ GenerateDefaultAccounts
    \/ LoadAccounts
    \/ LoadTenants
    \/ CreateAccountMirror
    \/ RemoveAccountDel
    \/ RemoveAccountLoop
    \/ AddTenantExcept
    \/ AddTenantMirror
    \/ RequestTenantExcept
    \/ RemoveTenantStore
    \/ RemoveTenantComponents
    \/ RemoveTenantModules
    \/ RegisterStart
    \/ UnregisterModules
    \/ UnregisterHandlers
    \/ UnregisterDel

Next ==
    \/ Step
    \/ \E username \in Usernames, role \in Roles : CreateAccount(username, role)
    \/ \E username \in Usernames : RemoveAccount(username)
    \/ \E username \in Usernames, req \in Requests : UpdateAccount(username, req)
    \/ \E owner \in Usernames, tenant_name \in TenantNames,
          id \in CallerIds \cup {None, EmptyId} : AddTenant(owner, Desc, tenant_name, id)
    \/ \E owner \in RequestOwners, tenant_name \in TenantNames,
          id \in CallerIds \cup {None, EmptyId} : RequestTenant(owner, Desc, tenant_name, id)
    \/ \E id \in TenantIds : RejectTenant(id)
    \/ \E id \in TenantIds : RemoveTenant(id)
    \/ \E name \in ComponentNames, inst \in Instances : Register(name, inst)
    \/ \E name \in ComponentNames : Unregister(name)

Spec == Init /\ [][Next]_vars

\* the same, with restarts of the controller on the store it left behind
SpecRestart == Init /\ [][Next \/ Restart]_vars

\* register called with a constructor or a component that raises
RegisterFaulty ==
    \E name \in ComponentNames, inst \in FaultyInstances : Register(name, inst)

\* the same as Spec, with components whose own operations raise
SpecFault == Init /\ [][Next \/ RegisterFaulty]_vars

\* ------------------------------------------------------------------ claims

\* the steps of remove_tenant after "del self.tenants[tenant_id]"
RemoveTenantSteps ==
    {"remove_tenant_store", "remove_tenant_components", "remove_tenant_modules"}

\* C1: at no step of an operation is the in-memory state ahead of the store:
\* every account and tenant in memory has a committed row (but for the
\* account whose row the running remove_account has just deleted), and an
\* entity the running remove_account / remove_tenant has already deleted
\* from memory has already been deleted from the store.
C1_StoreCommitsFirst ==
    /\ \A u \in DOMAIN accounts \ DOMAIN dbAccounts :
         pc # "idle" /\ op = [name |-> "remove_account", args |-> <<u>>]
    /\ Ids(tenants) \subseteq Ids(dbTenants)
    /\ (pc # "idle" /\ op.name = "remove_account"
          /\ op.args[1] \notin DOMAIN accounts)
       => op.args[1] \notin DOMAIN dbAccounts
    /\ (pc \in RemoveTenantSteps /\ tenant_id \notin Ids(tenants))
       => tenant_id \notin Ids(dbTenants)

\* C2: every step of remove_account(A) keeps the tenants of the other owners,
\* in memory and in the store, and when remove_account(A) returns, no tenant
\* owned by A is left in the in-memory map or in the store's tenant table.
C2_AccountCascade ==
    [][op'.name = "remove_account" =>
         LET A == op'.args[1]
         IN /\ \A t \in Range(tenants) : t.owner # A => t \in Range(tenants')
            /\ \A t \in Range(dbTenants) : t.owner # A => t \in Range(dbTenants')
            /\ (pc' = "idle" /\ result'.status = "ok")
               => \A t \in Range(tenants') \cup Range(dbTenants') : t.owner # A]_vars

\* C3: every step of remove_tenant(X) keeps the components without a modules
\* collection as they are and keeps every module of another tenant, and when
\* remove_tenant(X) returns, no component with a modules collection holds a
\* module of X.
C3_TenantCascade ==
    [][(pc \in RemoveTenantSteps \/ pc' \in RemoveTenantSteps) =>
         LET X == tenant_id'
         IN /\ Len(components') = Len(components)
            /\ \A i \in 1..Len(components) :
                 /\ components'[i].name = components[i].name
                 /\ ~components[i].hasModules => components'[i] = components[i]
                 /\ \A m \in Range(components[i].modules) :
                      m.tenant_id # X => m \in Range(components'[i].modules)
            /\ (pc \in RemoveTenantSteps /\ pc' \notin RemoveTenantSteps
                  /\ result'.status \in {"ok", "running"})
               => \A i \in 1..Len(components') :
                    components'[i].hasModules
                    => \A m \in Range(components'[i].modules) : m.tenant_id # X]_vars

\* remove_tenant("t1") returned; it took module m1 of tenant t1 from a
\* component and left module m2 of tenant t2
C3_Witness ==
    /\ pc = "idle"
    /\ op = [name |-> "remove_tenant", args |-> <<"t1">>]
    /\ result.status = "ok"
    /\ \E i \in 1..Len(components) :
         components[i].modules = <<Module("m2", "t2")>>

\* C4: between operations, the owner of every tenant in the in-memory map is
\* the username of an account registered in the in-memory accounts map.
C4_OwnerRegistered ==
    pc = "idle" =>
        \A t \in Range(tenants) :
            /\ t.owner \in DOMAIN accounts
            /\ accounts[t.owner].username = t.owner

\* remove_account returned after cascading to a tenant, and tenants of other
\* owners are still live
C4_Witness ==
    /\ pc = "idle"
    /\ op.name = "remove_account"
    /\ result.status = "ok"
    /\ caller = "remove_account"
    /\ tenants # <<>>

\* C5: no tenant_id is a pending request and a live tenant at once, and
\* add_tenant with a tenant_id that has a pending request ends with
\* ValueError.
C5_PendingLiveExclusive ==
    /\ Ids(dbPending) \cap Ids(tenants) = {}
    /\ (pc = "idle" /\ op.name = "add_tenant" /\ op.args[4] \in Ids(dbPending))
       => result.status = "ValueError"

\* C6: no two live tenants share a tenant_id or a tenant_name; add_tenant
\* with a live tenant_id raises ValueError at once, add_tenant with the
\* tenant_name of a live tenant of another id goes through the except clause
\* (rollback) and raises ValueError, and in both cases the in-memory tenants
\* and the store's tenant rows stay as they were.
C6_TenantsUnique ==
    [][/\ \A i, j \in 1..Len(tenants') :
            i # j => /\ tenants'[i].tenant_id # tenants'[j].tenant_id
                     /\ tenants'[i].tenant_name # tenants'[j].tenant_name
       /\ (pc = "idle" /\ op'.name = "add_tenant")
          => LET name == op'.args[3]
                 id == op'.args[4]
                 idLive == id \in Ids(tenants)
                 nameLive == \E t \in Range(tenants) :
                                 t.tenant_name = name /\ t.tenant_id # id
             IN /\ idLive => pc' = "idle" /\ result'.status = "ValueError"
                /\ (~idLive /\ nameLive) => pc' = "add_tenant_except"
                /\ (idLive \/ nameLive)
                   => tenants' = tenants /\ dbTenants' = dbTenants
       /\ pc = "add_tenant_except"
          => /\ pc' = "idle"
             /\ result'.status = "ValueError"
             /\ tenants' = tenants
             /\ dbTenants' = dbTenants]_vars

\* add_tenant raised ValueError for a tenant_name that a live tenant of
\* another id holds; that tenant is still live
C6_Witness ==
    /\ pc = "idle"
    /\ op.name = "add_tenant"
    /\ result.status = "ValueError"
    /\ op.args[4] \notin Ids(tenants) \cup {None}
    /\ \E t \in Range(tenants) :
         t.tenant_name = op.args[3] /\ t \in Range(dbTenants)

\* C7: remove_account("root") raises ValueError and changes neither the
\* accounts, nor the tenants, nor the store; an account root in the
\* in-memory map stays there.
C7_RootProtected ==
    [][/\ (pc = "idle" /\ op'.name = "remove_account" /\ op'.args[1] = "root")
          => /\ pc' = "idle"
             /\ result'.status = "ValueError"
             /\ UNCHANGED <<accounts, tenants, store>>
       /\ "root" \in DOMAIN accounts => "root" \in DOMAIN accounts']_vars

\* remove_account("root") was called and raised ValueError
C7_Witness ==
    /\ pc = "idle"
    /\ op = [name |-> "remove_account", args |-> <<"root">>]
    /\ result.status = "ValueError"
    /\ "root" \in DOMAIN accounts
    /\ "root" \in DOMAIN dbAccounts

\* C8: create_account with a username that is a key of the in-memory
\* accounts map raises ValueError and changes neither the store's account
\* rows nor the in-memory accounts.
C8_UsernameUnique ==
    [][(pc = "idle" /\ op'.name = "create_account"
          /\ op'.args[1] \in DOMAIN accounts)
       => /\ pc' = "idle"
          /\ result'.status = "ValueError"
          /\ dbAccounts' = dbAccounts
          /\ accounts' = accounts]_vars

\* create_account was called for a registered username and raised ValueError
C8_Witness ==
    /\ pc = "idle"
    /\ op.name = "create_account"
    /\ op.args[1] \in DOMAIN accounts
    /\ result.status = "ValueError"

\* C9: generate_default_accounts on a store without accounts writes exactly
\* root (admin), foo (user) and bar (user); on a store with an account it
\* changes nothing; it never touches the tenant tables.
C9_BootstrapIdempotent ==
    [][pc = "generate_default_accounts"
       => /\ IF DOMAIN dbAccounts = {}
             THEN /\ DOMAIN dbAccounts' = {"root", "foo", "bar"}
                  /\ \A u \in DOMAIN dbAccounts' : dbAccounts'[u].username = u
                  /\ dbAccounts'["root"].role = "admin"
                  /\ dbAccounts'["foo"].role = "user"
                  /\ dbAccounts'["bar"].role = "user"
             ELSE dbAccounts' = dbAccounts
          /\ UNCHANGED <<dbTenants, dbPending>>]_vars

\* the controller was started again on a store that holds root and bar only,
\* and generate_default_accounts has run and left it so
C9_Witness ==
    /\ pc = "load_accounts"
    /\ nops > 0
    /\ DOMAIN dbAccounts = {"root", "bar"}

\* C10: unregister of a registered component that is neither a ModuleWorker
\* nor an EmpowerApp raises ValueError and leaves self.components as it was
\* (no module removed, no handlers removed, no entry deleted).
C10_TypeGate ==
    [][(pc = "idle" /\ op'.name = "unregister"
          /\ op'.args[1] \in CompNames(components)
          /\ CompOf(components, op'.args[1]).cls
                \notin {"ModuleWorker", "EmpowerApp"})
       => /\ pc' = "idle"
          /\ result'.status = "ValueError"
          /\ components' = components]_vars

\* unregister raised ValueError for a registered component with a modules
\* collection that is no ModuleWorker; its modules and handlers are in place
C10_Witness ==
    /\ pc = "idle"
    /\ op.name = "unregister"
    /\ result.status = "ValueError"
    /\ op.args[1] \in CompNames(components)
    /\ CompOf(components, op.args[1]).modules # <<>>
    /\ CompOf(components, op.args[1]).handlers

\* C11: register of a name that is registered raises ValueError and leaves
\* self.components as it was; register of a free name stores the new instance
\* under the name with path = name, and then calls its start exactly once when
\* it has one and never when it has none.
C11_Registration ==
    [][/\ (pc = "idle" /\ op'.name = "register")
          => LET name == op'.args[1]
                 inst == op'.args[2]
             IN IF name \in CompNames(components)
                THEN /\ pc' = "idle"
                     /\ result'.status = "ValueError"
                     /\ components' = components
                ELSE /\ pc' = "register_start"
                     /\ components' =
                          Append(components,
                                 [inst EXCEPT !.name = name, !.path = name])
       /\ (pc = "register_start")
          => LET name == op.args[1]
                 c == CompOf(components, name)
             IN /\ pc' = "idle"
                /\ result' = Ok(None)
                /\ c.path = name
                /\ c.started = 0
                /\ components' =
                     [i \in 1..Len(components) |->
                        IF components[i].name = name
                        THEN [c EXCEPT !.started = IF c.hasStart THEN 1 ELSE 0]
                        ELSE components[i]]]_vars

\* register returned for a component with a start hook: it is stored under
\* its name, stamped with it, and was started once
C11_Witness ==
    /\ pc = "idle"
    /\ op.name = "register"
    /\ result.status = "ok"
    /\ op.args[1] \in CompNames(components)
    /\ CompOf(components, op.args[1]).hasStart
    /\ CompOf(components, op.args[1]).path = op.args[1]
    /\ CompOf(components, op.args[1]).started = 1

\* C12: request_tenant raises ValueError when the id is live or pending and
\* then changes nothing; a request_tenant that succeeds adds exactly one
\* pending row, under the id it returns; reject_tenant raises KeyError when no
\* request has the id and else deletes exactly that row; no tenant_id is ever
\* pending twice; neither call changes self.tenants or the tenant rows.
C12_PendingRequests ==
    [][/\ \A i, j \in 1..Len(dbPending') :
            dbPending'[i].tenant_id = dbPending'[j].tenant_id => i = j
       /\ (op'.name \in {"request_tenant", "reject_tenant"})
          => (tenants' = tenants /\ dbTenants' = dbTenants)
       /\ (pc = "idle" /\ op'.name = "request_tenant"
             /\ op'.args[4] \in Ids(tenants) \cup Ids(dbPending))
          => /\ pc' = "idle"
             /\ result'.status = "ValueError"
             /\ dbPending' = dbPending
       /\ (op'.name = "request_tenant" /\ pc' = "idle")
          => IF result'.status = "ok"
             THEN /\ Len(dbPending') = Len(dbPending) + 1
                  /\ SubSeq(dbPending', 1, Len(dbPending)) = dbPending
                  /\ dbPending'[Len(dbPending')].tenant_id = result'.value
             ELSE /\ result'.status = "ValueError"
                  /\ dbPending' = dbPending
       /\ (pc = "idle" /\ op'.name = "reject_tenant")
          => /\ pc' = "idle"
             /\ IF op'.args[1] \in Ids(dbPending)
                THEN /\ result'.status = "ok"
                     /\ Len(dbPending') = Len(dbPending) - 1
                     /\ Range(dbPending') =
                          {r \in Range(dbPending) : r.tenant_id # op'.args[1]}
                ELSE /\ result'.status = "KeyError"
                     /\ dbPending' = dbPending]_vars

\* reject_tenant returned for a request that was pending and no longer is,
\* while another request stays
C12_Witness ==
    /\ pc = "idle"
    /\ op.name = "reject_tenant"
    /\ result.status = "ok"
    /\ op.args[1] \notin Ids(dbPending)
    /\ dbPending # <<>>

\* C13: whenever no operation is running, the usernames in self.accounts are
\* the usernames of the account rows and the tenant ids in self.tenants are
\* the tenant ids of the tenant rows.
C13_ViewsAgree ==
    pc = "idle"
      => /\ DOMAIN accounts = DOMAIN dbAccounts
         /\ Ids(tenants) = Ids(dbTenants)

\* C14: while unregister runs, the component's handlers are removed only when
\* none of its modules is left, its registry entry is deleted only when its
\* handlers are removed, the modules go one remove_module at a time in the
\* order of the snapshot, an EmpowerApp never enters the module loop, and when
\* unregister returns the name is no longer registered.
C14_UnregisterOrder ==
    [][(op'.name = "unregister")
       => LET name == op'.args[1]
          IN /\ (name \in CompNames(components)
                   /\ name \in CompNames(components')
                   /\ CompOf(components, name).handlers
                   /\ ~CompOf(components', name).handlers)
                => /\ CompOf(components, name).modules = <<>>
                   /\ pc' = "unregister_del"
             /\ (name \in CompNames(components)
                   /\ name \notin CompNames(components'))
                => /\ ~CompOf(components, name).handlers
                   /\ CompOf(components, name).modules = <<>>
                   /\ pc' = "idle"
                   /\ result'.status = "ok"
             /\ (pc = "unregister_modules" /\ to_be_removed # <<>>)
                => /\ components' =
                        SetComp(components,
                                RemoveModule(CompOf(components, name),
                                             Head(to_be_removed)))
                   /\ to_be_removed' = Tail(to_be_removed)
             /\ (pc' = "unregister_modules")
                => /\ CompOf(components', name).cls = "ModuleWorker"
                   /\ CompOf(components', name).handlers
                   /\ {CompOf(components', name).modules[i].module_id :
                          i \in 1..Len(CompOf(components', name).modules)}
                        = Range(to_be_removed')
             /\ (pc' = "idle" /\ result'.status = "ok")
                => name \notin CompNames(components')]_vars

\* unregister of a worker with two modules is half way: one module is
\* removed, the other is next, the handlers are in place
C14_Witness ==
    /\ pc = "unregister_modules"
    /\ Len(to_be_removed) = 1
    /\ Len(CompOf(components, op.args[1]).modules) = 1
    /\ CompOf(components, op.args[1]).handlers

\* C15: a tenant leaves self.tenants only through remove_tenant, and while
\* remove_tenant runs on a tenant that is gone from self.tenants, its row is
\* gone from the store and no component with modules holds a module of it.
C15_AbsentLast ==
    [][/\ \A id \in Ids(tenants) \ Ids(tenants') :
            pc' = "remove_tenant_store" /\ tenant_id' = id
       /\ (pc' \in RemoveTenantSteps /\ tenant_id' \notin Ids(tenants'))
          => /\ tenant_id' \notin Ids(dbTenants')
             /\ \A i \in 1..Len(components') :
                  HasModules(components'[i])
                    => ModulesOf(components'[i], tenant_id') = <<>>]_vars

\* C16: when remove_module or remove_handlers raises while unregister runs,
\* unregister raises at that step and changes nothing more: the component is
\* still registered with its handlers, the modules removed before are gone,
\* the module that failed and those after it are still there.
C16_NoRollback ==
    [][/\ (\/ /\ pc = "unregister_modules"
              /\ to_be_removed # <<>>
              /\ Raises(CompOf(components, op.args[1]), "remove_module",
                        Head(to_be_removed))
           \/ /\ pc = "unregister_handlers"
              /\ Raises(CompOf(components, op.args[1]), "remove_handlers", ""))
          => /\ pc' = "idle"
             /\ result'.status = "Exception"
             /\ components' = components
             /\ to_be_removed' = to_be_removed
       /\ (pc' = "idle" /\ op'.name = "unregister"
             /\ result'.status = "Exception")
          => /\ op'.args[1] \in CompNames(components')
             /\ CompOf(components', op'.args[1]).handlers
             /\ {CompOf(components', op'.args[1]).modules[i].module_id :
                    i \in 1..Len(CompOf(components', op'.args[1]).modules)}
                  = Range(to_be_removed')]_vars

\* unregister raised at the second module of a worker: the first module is
\* gone, the second is there, the worker is registered with its handlers
C16_Witness ==
    /\ pc = "idle"
    /\ op.name = "unregister"
    /\ result.status = "Exception"
    /\ op.args[1] \in CompNames(components)
    /\ to_be_removed = <<"m2">>
    /\ Len(CompOf(components, op.args[1]).modules) = 1
    /\ CompOf(components, op.args[1]).modules[1].module_id = "m2"
    /\ CompOf(components, op.args[1]).handlers

\* C18: add_tenant for an owner that is not in self.accounts does not return
\* normally and changes neither the tenant rows nor self.tenants.
C18_UnknownOwner ==
    [][(op'.name = "add_tenant" /\ op'.args[1] \notin DOMAIN accounts)
       => /\ dbTenants' = dbTenants
          /\ tenants' = tenants
          /\ (pc' = "idle" => result'.status # "ok")]_vars

\* C19: when the constructor raises, register raises and the name is not
\* registered; when start raises, register raises and the component stays
\* registered as it was stored; a register of a registered name raises
\* ValueError, and a name leaves the registry only at the last step of an
\* unregister, which then returns normally.
C19_FailedRegistration ==
    [][/\ (pc = "idle" /\ op'.name = "register"
             /\ op'.args[1] \notin CompNames(components)
             /\ Raises(op'.args[2], "__init__", ""))
          => /\ pc' = "idle"
             /\ result'.status = "Exception"
             /\ components' = components
       /\ (pc = "register_start"
             /\ CompOf(components, op.args[1]).hasStart
             /\ Raises(CompOf(components, op.args[1]), "start", ""))
          => /\ pc' = "idle"
             /\ result'.status = "Exception"
             /\ components' = components
             /\ op.args[1] \in CompNames(components')
       /\ (pc = "idle" /\ op'.name = "register"
             /\ op'.args[1] \in CompNames(components))
          => /\ pc' = "idle"
             /\ result'.status = "ValueError"
             /\ components' = components
       /\ \A n \in CompNames(components) \ CompNames(components') :
            /\ pc = "unregister_del"
            /\ op.args[1] = n
            /\ pc' = "idle"
            /\ result'.status = "ok"]_vars

\* a component whose start raised is still registered, not started, and a
\* second register of its name raised ValueError
C19_Witness ==
    /\ pc = "idle"
    /\ op.name = "register"
    /\ result.status = "ValueError"
    /\ op.args[1] \in CompNames(components)
    /\ Raises(CompOf(components, op.args[1]), "start", "")
    /\ CompOf(components, op.args[1]).started = 0
====
